---- MODULE Spec2Model ----
(***************************************************************************)
(* State-machine model of the reservation backend (src/index.js): the HTTP *)
(* endpoints /restaurants, /availability, /alternatives, /reserve, /cancel,*)
(* GET /webhook and the POST /webhook conversational state machine, over   *)
(* the tables chat_sessions, reservations and restaurants.                 *)
(*                                                                         *)
(* Texts are sequences of one-character strings, so that trimming,         *)
(* lower-casing, parseInt and the regular expressions are computed.        *)
(* A nullable column or an optional parameter is a set with at most one    *)
(* element: None is null/undefined, Some(x) is the value x.                *)
(***************************************************************************)
EXTENDS Integers, Sequences, FiniteSets, TLC

None == {}
Some(x) == {x}
Val(m) == CHOOSE x \in m : TRUE

----------------------------------------------------------------------------
(* Characters and strings                                                  *)

UpperChars == <<"A","B","C","D","E","F","G","H","I","J","K","L","M",
                "N","O","P","Q","R","S","T","U","V","W","X","Y","Z">>
LowerChars == <<"a","b","c","d","e","f","g","h","i","j","k","l","m",
                "n","o","p","q","r","s","t","u","v","w","x","y","z">>
DigitChars == <<"0","1","2","3","4","5","6","7","8","9">>
WhiteChars == {" ", "\t", "\n"}

IsDigit(c) == \E i \in DOMAIN DigitChars : DigitChars[i] = c
DigitVal(c) == (CHOOSE i \in DOMAIN DigitChars : DigitChars[i] = c) - 1
IsHex(c) == IsDigit(c) \/ c \in {"a","b","c","d","e","f","A","B","C","D","E","F"}

\* String.prototype.toLowerCase, one character
LowerChar(c) ==
  IF \E i \in DOMAIN UpperChars : UpperChars[i] = c
  THEN LowerChars[CHOOSE i \in DOMAIN UpperChars : UpperChars[i] = c]
  ELSE c

toLowerCase(s) == [i \in DOMAIN s |-> LowerChar(s[i])]

\* String.prototype.trim: drops leading and trailing white space
trim(s) ==
  LET keep == {i \in DOMAIN s : s[i] \notin WhiteChars} IN
  IF keep = {} THEN <<>>
  ELSE LET lo == CHOOSE i \in keep : \A j \in keep : i <= j
           hi == CHOOSE i \in keep : \A j \in keep : i >= j
       IN  SubSeq(s, lo, hi)

\* mutant of normalizeText: lower-cases but does not trim
normalizeText_noTrim(t) == IF t = None THEN <<>> ELSE toLowerCase(Val(t))

\* normalizeText(s): (s || "").toString().trim().toLowerCase()
normalizeText(t) == IF t = None THEN <<>> ELSE toLowerCase(trim(Val(t)))

\* isISODate(s): /^\d{4}-\d{2}-\d{2}$/
isISODate(s) ==
  /\ Len(s) = 10
  /\ \A i \in {1,2,3,4,6,7,9,10} : IsDigit(s[i])
  /\ s[5] = "-" /\ s[8] = "-"

\* isUUID(s): /^[0-9a-f]{8}-[0-9a-f]{4}-[1-5][0-9a-f]{3}-[89ab][0-9a-f]{3}-[0-9a-f]{12}$/i
isUUID(s) ==
  /\ Len(s) = 36
  /\ \A i \in {9, 14, 19, 24} : s[i] = "-"
  /\ \A i \in (1..36) \ {9, 14, 15, 19, 20, 24} : IsHex(s[i])
  /\ s[15] \in {"1","2","3","4","5"}
  /\ s[20] \in {"8","9","a","b","A","B"}

RECURSIVE DigitsValue(_, _)
\* value of the longest prefix of digits of s, continuing from acc
DigitsValue(s, acc) ==
  IF s = <<>> \/ ~IsDigit(Head(s)) THEN acc
  ELSE DigitsValue(Tail(s), 10 * acc + DigitVal(Head(s)))

\* parseInt(s, 10): skips leading white space, takes an optional sign and
\* the longest prefix of digits; None is NaN
parseInt(t) ==
  IF t = None THEN None
  ELSE LET s   == Val(t)
           ws  == {i \in DOMAIN s : s[i] \notin WhiteChars}
           s1  == IF ws = {} THEN <<>>
                  ELSE SubSeq(s, CHOOSE i \in ws : \A j \in ws : i <= j, Len(s))
           neg == s1 # <<>> /\ Head(s1) = "-"
           s2  == IF s1 # <<>> /\ Head(s1) \in {"-", "+"} THEN Tail(s1) ELSE s1
       IN  IF s2 = <<>> \/ ~IsDigit(Head(s2)) THEN None
           ELSE Some(IF neg THEN 0 - DigitsValue(s2, 0) ELSE DigitsValue(s2, 0))

----------------------------------------------------------------------------
(* Bounds of the model                                                     *)

\* rows the reservations table may hold
MaxReservations == 2
\* capacity_max of every restaurant row
MaxCapacity == 4

----------------------------------------------------------------------------
(* Literals of the source                                                  *)

T_menu        == <<"m","e","n","u">>
T_hola        == <<"h","o","l","a">>
T_hi          == <<"h","i">>
T_reiniciar   == <<"r","e","i","n","i","c","i","a","r">>
T_reset       == <<"r","e","s","e","t">>
T_1           == <<"1">>
T_2           == <<"2">>
T_3           == <<"3">>
T_4           == <<"4">>
T_reservar    == <<"r","e","s","e","r","v","a","r">>
T_cancelar    == <<"c","a","n","c","e","l","a","r">>
T_confirmar   == <<"c","o","n","f","i","r","m","a","r">>
T_locales     == <<"l","o","c","a","l","e","s">>
T_horarios    == <<"h","o","r","a","r","i","o","s">>
T_deliclub    == <<"d","e","l","i","c","l","u","b">>
T_brodo_pasta == <<"b","r","o","d","o","-","p","a","s","t","a">>
T_pasta       == <<"p","a","s","t","a">>
T_brodo_pizza == <<"b","r","o","d","o","-","p","i","z","z","a">>
T_pizza       == <<"p","i","z","z","a">>
T_lunch       == <<"l","u","n","c","h">>
T_dinner      == <<"d","i","n","n","e","r">>

\* the session states the state machine names
States == {"IDLE", "ASK_RESTAURANT", "ASK_PARTY_SIZE", "ASK_DATE", "ASK_SERVICE",
           "CONFIRM_RESERVATION", "ASK_ALT_PICK", "ASK_CANCEL_ID"}

----------------------------------------------------------------------------
(* Data of the environment                                                 *)

WaIds == {"wa1", "wa2"}

DATE1 == <<"2","0","2","6","-","0","1","-","2","5">>
DATE2 == <<"2","0","2","6","-","0","1","-","2","6">>

\* ids the database hands out to inserted reservations, in this order
UUIDs == << <<"f","1","5","d","b","5","9","6","-","5","2","b","3","-","4","b","f","7","-",
              "a","0","4","0","-","a","d","3","d","5","1","e","6","e","2","d","b">>,
            <<"0","a","0","0","0","0","0","2","-","5","2","b","3","-","4","b","f","7","-",
              "a","0","4","0","-","a","d","3","d","5","1","e","6","e","2","d","b">>,
            <<"0","b","0","0","0","0","0","3","-","5","2","b","3","-","4","b","f","7","-",
              "a","0","4","0","-","a","d","3","d","5","1","e","6","e","2","d","b">>,
            <<"0","c","0","0","0","0","0","4","-","5","2","b","3","-","4","b","f","7","-",
              "a","0","4","0","-","a","d","3","d","5","1","e","6","e","2","d","b">> >>

\* table restaurants: id, name, code, capacity_max
RestaurantsTable ==
  { [id |-> "rest-1", name |-> "Deliclub",    code |-> "deliclub",    capacity_max |-> MaxCapacity],
    [id |-> "rest-2", name |-> "Brodo Pasta", code |-> "brodo-pasta", capacity_max |-> MaxCapacity],
    [id |-> "rest-3", name |-> "Brodo Pizza", code |-> "brodo-pizza", capacity_max |-> MaxCapacity] }

VARIABLES
  sessions,      \* table chat_sessions: a set of rows
  reservations,  \* table reservations: a set of rows
  req,           \* the requests being handled: slot -> handler state
  nreq,          \* requests received so far
  shown          \* WhatsApp: wa_id -> the alternatives listed by the last such
                 \* reply delivered to it

vars == <<sessions, reservations, req, nreq, shown>>

----------------------------------------------------------------------------
(* The database client                                                     *)

\* chat_sessions.select("*").eq("wa_id", wa_id).limit(1), then
\* getSession's "data && data.length ? data[0] : null"
getSession(S, wa_id) ==
  LET data == {row \in S : row.wa_id = wa_id} IN
  IF data = {} THEN None ELSE Some(CHOOSE row \in data : TRUE)

\* the row an upsert writes: the columns of the patch over the old row, or
\* over a new row of nulls
PatchedRow(old, wa_id, patch) ==
  LET Col(c, dflt) == IF c \in DOMAIN patch THEN patch[c]
                      ELSE IF old = None THEN dflt ELSE Val(old)[c]
  IN  [wa_id           |-> wa_id,
       state           |-> Col("state", "IDLE"),
       restaurant_code |-> Col("restaurant_code", None),
       party_size      |-> Col("party_size", None),
       service_date    |-> Col("service_date", None),
       service         |-> Col("service", None)]

\* mutant of upsertSession: inserts without resolving the conflict on wa_id
upsertSession_noConflict(S, wa_id, patch) ==
  S \cup {PatchedRow(None, wa_id, patch)}

\* upsertSession(wa_id, patch): upsert(payload, {onConflict: "wa_id"}); the
\* table after the call (updated_at is not modelled)
upsertSession(S, wa_id, patch) ==
  LET old == getSession(S, wa_id) IN
  {row \in S : row.wa_id # wa_id} \cup {PatchedRow(old, wa_id, patch)}

\* mutant of ResetPatch: resets the state only
ResetPatch_stateOnly == [state |-> "IDLE"]

\* the patch of resetSession(wa_id)
ResetPatch ==
  [state |-> "IDLE", restaurant_code |-> None, party_size |-> None,
   service_date |-> None, service |-> None]

\* restaurants.select("id").eq("code", code).limit(1)
restaurantRows(code) ==
  IF code = None THEN {} ELSE {row \in RestaurantsTable : row.code = Val(code)}

RECURSIVE SumParty(_)
SumParty(R) ==
  IF R = {} THEN 0
  ELSE LET row == CHOOSE x \in R : TRUE
       IN  (IF row.party_size = None THEN 0 ELSE Val(row.party_size)) + SumParty(R \ {row})

\* people already booked (status CONFIRMED) at a restaurant for a date and service
Booked(R, restaurant_id, d, s) ==
  SumParty({row \in R : /\ row.restaurant_id = restaurant_id
                        /\ row.service_date = d /\ row.service = s
                        /\ row.status = "CONFIRMED"})

\* whether the remote procedure check_availability may grant the request:
\* the party fits the restaurant's capacity_max; the procedure is opaque
\* for a code that is in no restaurant row or for null arguments
Fits(R, r, d, s, p) ==
  \/ restaurantRows(r) = {}
  \/ p = None
  \/ \E row \in restaurantRows(r) : Booked(R, row.id, d, s) + Val(p) <= row.capacity_max

\* rpc("check_availability"): "error" is {error}, "absent" is data without a
\* first row, "no" is a row with ok false, "ok" is a row with ok true
AvailOutcomes(R, r, d, s, p) ==
  {"error", "absent", "no"} \cup (IF Fits(R, r, d, s, p) THEN {"ok"} ELSE {})

\* rows rpc("suggest_alternatives") may return
ALT1 == [service_date |-> DATE2, service |-> "LUNCH"]
ALT2 == [service_date |-> DATE2, service |-> "DINNER"]
ALT3 == [service_date |-> DATE1, service |-> "DINNER"]
AltLists == { <<>>, <<ALT1>>, <<ALT1, ALT2, ALT3>>, <<ALT2, ALT1, ALT3>> }

\* the id the database gives the next inserted reservation
NextId(R) == UUIDs[Cardinality(R) + 1]

\* mutant of cancelRows: the row is deleted instead of marked
cancelRows_delete(R, id) == {row \in R : row.id # id}

\* mutant of cancelRows: the update without its eq("id", ...) filter
cancelRows_noFilter(R, id) ==
  {[row EXCEPT !.status = "CANCELLED"] : row \in R}

\* reservations.update({status: "CANCELLED"}).eq("id", id): the table after
cancelRows(R, id) ==
  {IF row.id = id THEN [row EXCEPT !.status = "CANCELLED"] ELSE row : row \in R}

\* ... .select("id,status"): the rows the update returns
cancelledData(R, id) ==
  {[id |-> row.id, status |-> "CANCELLED"] : row \in {x \in R : x.id = id}}

----------------------------------------------------------------------------
(* Requests                                                                *)

Slots == {1, 2}

\* requests a behaviour receives
MaxRequests == 7

\* a slot in which no request has been received yet
IdleReq ==
  [kind |-> "none", pc |-> "idle", q |-> <<>>, wa |-> "", text |-> <<>>,
   before |-> None, session |-> None, avail |-> "", alts |-> None, rid |-> None,
   newId |-> None,
   pending |-> None, assign |-> FALSE, reply |-> [tag |-> "", data |-> <<>>],
   failed |-> FALSE, threw |-> FALSE, sent |-> <<>>, responses |-> <<>>, calls |-> <<>>]

\* a slot as a handler of the given endpoint starts on request q
NewReq(kind, q) == [IdleReq EXCEPT !.kind = kind, !.q = q, !.pc = "start"]

\* res.status(status).json(body) / res.sendStatus(status) / res.send(body),
\* after which the handler returns
Respond(r, status, body) ==
  [r EXCEPT !.pc = "done",
            !.responses = Append(@, [status |-> status, body |-> body])]

\* mutant of ErrorBody: the message goes in a field named message
ErrorBody_message(msg) == [ok |-> FALSE, message |-> msg]

\* { ok: false, error: <message> }, the body of the 400, 404 and 500 answers
ErrorBody(msg) == [ok |-> FALSE, error |-> msg]

\* { ok: false, reason: avail?.reason || "NOT_AVAILABLE", details: avail },
\* the body of the 409 answer of /reserve
ConflictBody(out) == [ok |-> FALSE, reason |-> "NOT_AVAILABLE", details |-> out]

\* the handler has made the named call on the database or on WhatsApp
Called(r, name, args) == [r EXCEPT !.calls = Append(@, [name |-> name, args |-> args])]

\* the handler has been answered by rpc("suggest_alternatives"): altError
\* and altData
Suggested(r, error, altData) ==
  [r EXCEPT !.alts = Some([error |-> error, data |-> IF error THEN <<>> ELSE altData])]

\* the last call of the handler returned an error or threw
Err(r) == [r EXCEPT !.failed = TRUE]

\* JavaScript's !x for an optional string: undefined, null or ""
\* (FalsyStr for restaurant codes, services, names; FalsyText for texts)
FalsyStr(m) == m = None \/ Val(m) = ""
FalsyText(m) == m = None \/ Val(m) = <<>>

\* slot k is free to receive a request
CanStart(k) == req[k].pc = "idle" /\ nreq < MaxRequests

\* the request in slot k has been answered and its handler has returned: the
\* slot is free again
Close(k) ==
  /\ req[k].pc = "done"
  /\ req' = [req EXCEPT ![k] = IdleReq]
  /\ UNCHANGED <<sessions, reservations, nreq, shown>>

----------------------------------------------------------------------------
(* GET /restaurants, GET /availability, GET /alternatives                  *)

\* app.get("/restaurants")
Restaurants(k) ==
  /\ CanStart(k)
  /\ \E error \in BOOLEAN :
       LET r == Called(NewReq("restaurants", <<>>), "select:restaurants", <<>>) IN
       req' = [req EXCEPT ![k] =
                 IF error THEN Respond(Err(r), 500, ErrorBody("db error"))
                 ELSE Respond(r, 200, [ok |-> TRUE, restaurants |-> RestaurantsTable])]
  /\ nreq' = nreq + 1
  /\ UNCHANGED <<sessions, reservations, shown>>

\* days ahead suggest_alternatives looks when the caller names none
DaysAhead == 14

\* query strings of /availability and /alternatives
Queries ==
  { [restaurant |-> Some("deliclub"), date |-> Some(DATE1), service |-> Some("LUNCH"),
     party |-> Some(<<"2">>), days |-> None],
    [restaurant |-> Some("deliclub"), date |-> Some(DATE1), service |-> Some("LUNCH"),
     party |-> Some(<<"3", "x">>), days |-> Some(<<"7">>)],
    [restaurant |-> None, date |-> Some(DATE1), service |-> Some("LUNCH"),
     party |-> Some(<<"2">>), days |-> None],
    [restaurant |-> Some("deliclub"), date |-> Some(<<>>), service |-> Some("LUNCH"),
     party |-> Some(<<"2">>), days |-> None],
    [restaurant |-> Some("deliclub"), date |-> Some(DATE1), service |-> None,
     party |-> Some(<<"2">>), days |-> None],
    [restaurant |-> Some("deliclub"), date |-> Some(DATE1), service |-> Some("LUNCH"),
     party |-> Some(<<"x", "2">>), days |-> None],
    [restaurant |-> Some("deliclub"), date |-> Some(DATE1), service |-> Some("LUNCH"),
     party |-> None, days |-> None] }

\* mutant of QueryInvalid: does not check party
QueryInvalid_noParty(q) ==
  FalsyStr(q.restaurant) \/ FalsyText(q.date) \/ FalsyStr(q.service)

\* !restaurant || !date || !service || Number.isNaN(party)
QueryInvalid(q) ==
  FalsyStr(q.restaurant) \/ FalsyText(q.date) \/ FalsyStr(q.service) \/ parseInt(q.party) = None

\* app.get("/availability")
Availability(k) ==
  /\ CanStart(k)
  /\ \E q \in Queries :
       LET r0 == NewReq("availability", q) IN
       IF QueryInvalid(q)
       THEN req' = [req EXCEPT ![k] =
                      Respond(r0, 400, ErrorBody("Missing or invalid query params"))]
       ELSE \E out \in AvailOutcomes(reservations, q.restaurant, q.date, q.service,
                                     parseInt(q.party)) :
              LET r == [Called(r0, "rpc:check_availability",
                               <<q.restaurant, q.date, q.service, parseInt(q.party)>>)
                          EXCEPT !.avail = out] IN
              req' = [req EXCEPT ![k] =
                        IF out = "error"
                        THEN Respond(Err(r), 500, ErrorBody("db error"))
                        ELSE Respond(r, 200, [ok |-> TRUE, result |-> out])]
  /\ nreq' = nreq + 1
  /\ UNCHANGED <<sessions, reservations, shown>>

\* app.get("/alternatives")
Alternatives(k) ==
  /\ CanStart(k)
  /\ \E q \in Queries :
       LET r0 == NewReq("alternatives", q) IN
       IF QueryInvalid(q)
       THEN req' = [req EXCEPT ![k] =
                      Respond(r0, 400, ErrorBody("Missing or invalid query params"))]
       ELSE \E error \in BOOLEAN, alts \in AltLists :
              LET r == Called(r0, "rpc:suggest_alternatives",
                              <<q.restaurant, q.date, q.service, parseInt(q.party),
                                IF FalsyText(q.days) THEN Some(DaysAhead) ELSE parseInt(q.days)>>) IN
              req' = [req EXCEPT ![k] =
                        IF error
                        THEN Respond(Err(r), 500, ErrorBody("db error"))
                        ELSE Respond(r, 200, [ok |-> TRUE, alternatives |-> alts])]
  /\ nreq' = nreq + 1
  /\ UNCHANGED <<sessions, reservations, shown>>

----------------------------------------------------------------------------
(* POST /reserve                                                           *)

ReserveBase ==
  [restaurant |-> Some("deliclub"), date |-> Some(DATE1), service |-> Some("LUNCH"),
   party |-> Some(<<"2">>), customer_name |-> Some("Ana"), customer_phone |-> Some("555")]

\* request bodies of /reserve
ReserveBodies ==
  { ReserveBase,
    [ReserveBase EXCEPT !.party = Some(<<"3", " ", "p">>)],
    [ReserveBase EXCEPT !.restaurant = Some("nope")],
    [ReserveBase EXCEPT !.restaurant = None],
    [ReserveBase EXCEPT !.restaurant = Some("")],
    [ReserveBase EXCEPT !.date = None],
    [ReserveBase EXCEPT !.service = None],
    [ReserveBase EXCEPT !.party = None],
    [ReserveBase EXCEPT !.party = Some(<<"d", "o", "s">>)],
    [ReserveBase EXCEPT !.customer_name = None],
    [ReserveBase EXCEPT !.customer_phone = None] }

\* mutant of ReserveInvalid: does not check partyInt
ReserveInvalid_noParty(q) ==
  \/ FalsyStr(q.restaurant) \/ FalsyText(q.date) \/ FalsyStr(q.service)
  \/ FalsyStr(q.customer_name) \/ FalsyStr(q.customer_phone)

\* !restaurant || !date || !service || Number.isNaN(partyInt) || !customer_name
\* || !customer_phone
ReserveInvalid(q) ==
  \/ FalsyStr(q.restaurant) \/ FalsyText(q.date) \/ FalsyStr(q.service)
  \/ parseInt(q.party) = None
  \/ FalsyStr(q.customer_name) \/ FalsyStr(q.customer_phone)

\* mutant of ReserveRejected: a missing result counts as available
ReserveRejected_absentOk(out) == out = "no"

\* !avail || avail.ok !== true
ReserveRejected(out) == out # "ok"

\* the row /reserve inserts
ReserveRow(r, id) ==
  [id |-> id, restaurant_id |-> Val(r.rid),
   customer_name |-> Val(r.q.customer_name), customer_phone |-> Val(r.q.customer_phone),
   party_size |-> parseInt(r.q.party), service_date |-> r.q.date,
   service |-> r.q.service, status |-> "CONFIRMED"]

\* app.post("/reserve"): the body is validated
ReserveReceive(k) ==
  /\ CanStart(k)
  /\ \E q \in ReserveBodies :
       LET r == NewReq("reserve", q) IN
       req' = [req EXCEPT ![k] =
                 IF ReserveInvalid(q)
                 THEN Respond(r, 400, ErrorBody("Missing/invalid fields"))
                 ELSE [r EXCEPT !.pc = "check"]]
  /\ nreq' = nreq + 1
  /\ UNCHANGED <<sessions, reservations, shown>>

\* await supabase.rpc("check_availability", ...) and the 500 / 409 answers
ReserveCheckAvailability(k) ==
  /\ req[k].kind = "reserve" /\ req[k].pc = "check"
  /\ \E out \in AvailOutcomes(reservations, req[k].q.restaurant, req[k].q.date,
                              req[k].q.service, parseInt(req[k].q.party)) :
       LET r == [Called(req[k], "rpc:check_availability",
                        <<req[k].q.restaurant, req[k].q.date, req[k].q.service,
                          parseInt(req[k].q.party)>>)
                   EXCEPT !.avail = out] IN
       req' = [req EXCEPT ![k] =
                 IF out = "error"
                 THEN Respond(Err(r), 500, ErrorBody("db error"))
                 ELSE IF ReserveRejected(out)
                 THEN Respond(r, 409, ConflictBody(out))
                 ELSE [r EXCEPT !.pc = "lookup"]]
  /\ UNCHANGED <<sessions, reservations, nreq, shown>>

\* await supabase.from("restaurants").select("id").eq("code", restaurant)
ReserveLookupRestaurant(k) ==
  /\ req[k].kind = "reserve" /\ req[k].pc = "lookup"
  /\ \E error \in BOOLEAN :
       LET r    == Called(req[k], "select:restaurants", req[k].q.restaurant)
           rows == restaurantRows(req[k].q.restaurant)
       IN  req' = [req EXCEPT ![k] =
                 IF error
                 THEN Respond(Err(r), 500, ErrorBody("db error"))
                 ELSE IF rows = {}
                 THEN Respond(r, 404, ErrorBody("Unknown restaurant code"))
                 ELSE [r EXCEPT !.pc = "insert",
                                !.rid = Some((CHOOSE row \in rows : TRUE).id)]]
  /\ UNCHANGED <<sessions, reservations, nreq, shown>>

\* await supabase.from("reservations").insert({...}).select("id")
ReserveInsert(k) ==
  /\ req[k].kind = "reserve" /\ req[k].pc = "insert"
  /\ LET r == Called(req[k], "insert:reservations", ReserveRow(req[k], <<>>)) IN
     \/ /\ req' = [req EXCEPT ![k] = Respond(Err(r), 500, ErrorBody("db error"))]
        /\ UNCHANGED reservations
     \/ /\ Cardinality(reservations) < MaxReservations
        /\ LET id == NextId(reservations) IN
           /\ reservations' = reservations \cup {ReserveRow(r, id)}
           /\ req' = [req EXCEPT ![k] =
                        Respond([r EXCEPT !.newId = Some(id)], 200,
                                [ok |-> TRUE, reservation_id |-> id])]
  /\ UNCHANGED <<sessions, nreq, shown>>

----------------------------------------------------------------------------
(* POST /cancel                                                            *)

\* request bodies of /cancel
CancelBodies ==
  { [reservation_id |-> None], [reservation_id |-> Some(<<>>)],
    [reservation_id |-> Some(UUIDs[1])], [reservation_id |-> Some(UUIDs[2])] }

\* app.post("/cancel")
Cancel(k) ==
  /\ CanStart(k)
  /\ \E q \in CancelBodies :
       LET r0 == NewReq("cancel", q) IN
       IF FalsyText(q.reservation_id)
       THEN /\ req' = [req EXCEPT ![k] =
                         Respond(r0, 400, ErrorBody("Missing reservation_id"))]
            /\ UNCHANGED reservations
       ELSE LET r    == Called(r0, "update:reservations", q.reservation_id)
                id   == Val(q.reservation_id)
                data == cancelledData(reservations, id)
            IN  \/ /\ req' = [req EXCEPT ![k] =
                                Respond(Err(r), 500, ErrorBody("db error"))]
                   /\ UNCHANGED reservations
                \/ /\ reservations' = cancelRows(reservations, id)
                   /\ req' = [req EXCEPT ![k] =
                                IF data = {}
                                THEN Respond(r, 404, ErrorBody("Reservation not found"))
                                ELSE Respond(r, 200, [ok |-> TRUE,
                                                      reservation |-> CHOOSE row \in data : TRUE])]
  /\ nreq' = nreq + 1
  /\ UNCHANGED <<sessions, shown>>

----------------------------------------------------------------------------
(* GET /webhook                                                            *)

\* query strings of the verification handshake, with the value the
\* environment gives WHATSAPP_VERIFY_TOKEN
VerifyQueries ==
  [mode : {None, Some("subscribe"), Some("unsubscribe")},
   token : {None, Some("tok"), Some("bad")},
   challenge : {Some("c1")},
   expected : {None, Some("tok")}]

\* mutant of verifyOk: does not look at hub.mode
verifyOk_noMode(q) == q.token = q.expected

\* mode === "subscribe" && token === expectedToken
verifyOk(q) == q.mode = Some("subscribe") /\ q.token = q.expected

\* app.get("/webhook")
WebhookVerify(k) ==
  /\ CanStart(k)
  /\ \E q \in VerifyQueries :
       LET r == NewReq("verify", q) IN
       req' = [req EXCEPT ![k] =
                 IF verifyOk(q) THEN Respond(r, 200, q.challenge)
                 ELSE Respond(r, 403, Some("Forbidden"))]
  /\ nreq' = nreq + 1
  /\ UNCHANGED <<sessions, reservations, shown>>

----------------------------------------------------------------------------
(* POST /webhook: the decisions of the state machine                       *)

\* bounds of a party size (n < 1 || n > 50)
PartyMin == 1
PartyMax == 50
\* alternatives offered (alts.slice(0, 3), pick > 3)
MaxAlternatives == 3

\* a reply text, named by a tag, with the data it quotes
Reply(tag) == [tag |-> tag, data |-> <<>>]
ReplyWith(tag, data) == [tag |-> tag, data |-> data]

\* formatAlternatives(alts): the alternatives the reply lists, in order
formatAlternatives(alts) ==
  IF Len(alts) <= MaxAlternatives THEN alts ELSE SubSeq(alts, 1, MaxAlternatives)

\* mutant of IsMenuCommand: "hi" is not a command
IsMenuCommand_noHi(n) == n = T_menu \/ n = T_hola

\* normalized === "menu" || normalized === "hola" || normalized === "hi"
IsMenuCommand(n) == n = T_menu \/ n = T_hola \/ n = T_hi

\* normalized === "reiniciar" || normalized === "reset"
IsResetCommand(n) == n = T_reiniciar \/ n = T_reset

\* the restaurant code an answer names in ASK_RESTAURANT, None for none
RestaurantChoice(n) ==
  IF n = T_3 \/ n = T_brodo_pizza \/ n = T_pizza THEN Some("brodo-pizza")
  ELSE IF n = T_2 \/ n = T_brodo_pasta \/ n = T_pasta THEN Some("brodo-pasta")
  ELSE IF n = T_1 \/ n = T_deliclub THEN Some("deliclub")
  ELSE None

\* mutant of ServiceChoice: every recognised answer is taken for lunch
ServiceChoice_lunch(n) ==
  IF n = T_2 \/ n = T_dinner \/ n = T_1 \/ n = T_lunch THEN Some("LUNCH") ELSE None

\* the service an answer names in ASK_SERVICE, None for none
ServiceChoice(n) ==
  IF n = T_2 \/ n = T_dinner THEN Some("DINNER")
  ELSE IF n = T_1 \/ n = T_lunch THEN Some("LUNCH")
  ELSE None

\* Number.isNaN(n) || n < lo || n > hi
OutOfRange(n, lo, hi) == n = None \/ Val(n) < lo \/ Val(n) > hi

\* what a branch of the state machine does first
Step(op, patch, assign, reply) ==
  [op |-> op, patch |-> patch, assign |-> assign, reply |-> reply]
JustReply(tag) == Step("reply", <<>>, FALSE, Reply(tag))
Upsert(patch, tag) == Step("upsert", patch, FALSE, Reply(tag))

\* mutant of PlanIdle: "1" skips the choice of the restaurant
PlanIdle_skipRestaurant(n) ==
  IF n = T_1 \/ n = T_reservar
    THEN Upsert([state |-> "ASK_PARTY_SIZE"], "ask_party_size")
  ELSE IF n = T_2 \/ n = T_cancelar
    THEN Upsert([state |-> "ASK_CANCEL_ID"], "ask_cancel_id")
  ELSE JustReply("menu")

\* the branch of state IDLE
PlanIdle(n) ==
  IF n = T_1 \/ n = T_reservar
    THEN Upsert([state |-> "ASK_RESTAURANT"], "ask_restaurant")
  ELSE IF n = T_2 \/ n = T_cancelar
    THEN Upsert([state |-> "ASK_CANCEL_ID"], "ask_cancel_id")
  ELSE IF n = T_3 \/ n = T_locales \/ n = T_horarios
    THEN JustReply("locals")
  ELSE JustReply("menu")

\* the branch of the state machine taken for a session row and a normalized
\* text, up to its first call
Plan(session, n) ==
  CASE session.state = "IDLE" -> PlanIdle(n)
    [] session.state = "ASK_RESTAURANT" ->
         IF RestaurantChoice(n) = None THEN JustReply("restaurant_not_understood")
         ELSE Upsert([state |-> "ASK_PARTY_SIZE", restaurant_code |-> RestaurantChoice(n),
                      party_size |-> None, service_date |-> None, service |-> None],
                     "ask_party_size")
    [] session.state = "ASK_PARTY_SIZE" ->
         IF OutOfRange(parseInt(Some(n)), PartyMin, PartyMax) THEN JustReply("party_invalid")
         ELSE Upsert([state |-> "ASK_DATE", party_size |-> parseInt(Some(n))], "ask_date")
    [] session.state = "ASK_DATE" ->
         IF ~isISODate(n) THEN JustReply("date_invalid")
         ELSE Upsert([state |-> "ASK_SERVICE", service_date |-> Some(n)], "ask_service")
    [] session.state = "ASK_SERVICE" ->
         IF ServiceChoice(n) = None THEN JustReply("service_invalid")
         ELSE Step("upsert", [state |-> "CONFIRM_RESERVATION", service |-> ServiceChoice(n)],
                   TRUE, Reply("confirmation"))
    [] session.state = "CONFIRM_RESERVATION" ->
         IF n = T_4 \/ n = T_cancelar THEN Upsert(ResetPatch, "process_cancelled")
         ELSE IF n = T_2 THEN Upsert([state |-> "ASK_DATE"], "ask_new_date")
         ELSE IF n = T_3 THEN Upsert([state |-> "ASK_SERVICE"], "ask_new_service")
         ELSE IF n = T_1 \/ n = T_confirmar THEN Step("avail", <<>>, FALSE, Reply(""))
         ELSE JustReply("confirm_not_understood")
    [] session.state = "ASK_ALT_PICK" ->
         IF OutOfRange(parseInt(Some(n)), 1, MaxAlternatives) THEN JustReply("pick_invalid")
         ELSE Step("pick", <<>>, FALSE, Reply(""))
    [] session.state = "ASK_CANCEL_ID" ->
         IF ~isUUID(n) THEN JustReply("uuid_invalid")
         ELSE Step("cancel", <<>>, FALSE, Reply(""))
    [] OTHER -> Upsert(ResetPatch, "reset_for_safety")

\* mutant of availOk: any answer of check_availability that is no error counts
availOk_noCheck(out) == out # "error"

\* avail?.ok === true
availOk(out) == out = "ok"

\* mutant of PickOutcome: takes the first alternative whatever the answer
PickOutcome_first(error, altData, pick) ==
  IF error \/ Len(altData) = 0 \/ pick > Len(altData)
  THEN [patch |-> ResetPatch, reply |-> Reply("pick_failed")]
  ELSE [patch |-> [state |-> "CONFIRM_RESERVATION",
                   service_date |-> Some(altData[1].service_date),
                   service |-> Some(altData[1].service)],
        reply |-> ReplyWith("alternative_chosen", altData[1])]

\* the patch and reply of ASK_ALT_PICK once suggest_alternatives has answered:
\* altError || !altData?.length || !altData[pick - 1]
PickOutcome(error, altData, pick) ==
  IF error \/ Len(altData) = 0 \/ pick > Len(altData)
  THEN [patch |-> ResetPatch, reply |-> Reply("pick_failed")]
  ELSE [patch |-> [state |-> "CONFIRM_RESERVATION",
                   service_date |-> Some(altData[pick].service_date),
                   service |-> Some(altData[pick].service)],
        reply |-> ReplyWith("alternative_chosen", altData[pick])]

\* mutant of AlternativesOutcome: the session goes to ASK_ALT_PICK also when
\* suggest_alternatives errors
AlternativesOutcome_noReset(error, altData) ==
  [patch |-> [state |-> "ASK_ALT_PICK"],
   reply |-> IF error THEN Reply("alternatives_error")
             ELSE ReplyWith("alternatives", formatAlternatives(altData))]

\* the patch and reply of CONFIRM_RESERVATION once suggest_alternatives has
\* answered: if (altError) resetSession else upsertSession ASK_ALT_PICK
AlternativesOutcome(error, altData) ==
  IF error
  THEN [patch |-> ResetPatch, reply |-> Reply("alternatives_error")]
  ELSE [patch |-> [state |-> "ASK_ALT_PICK"],
        reply |-> ReplyWith("alternatives", formatAlternatives(altData))]

\* the row the webhook inserts for a confirmed session
WebhookRow(r, id) ==
  [id |-> id, restaurant_id |-> Val(r.rid),
   customer_name |-> "WhatsApp User", customer_phone |-> r.wa,
   party_size |-> Val(r.session).party_size, service_date |-> Val(r.session).service_date,
   service |-> Val(r.session).service, status |-> "CONFIRMED"]

----------------------------------------------------------------------------
(* POST /webhook: the handler                                              *)

\* text bodies of inbound messages
Texts ==
  { <<" ","M","e","n","u"," ">>, <<"H","O","L","A">>, <<"h","i","\n">>,
    <<"R","e","i","n","i","c","i","a","r">>, T_reset,
    T_1, T_2, T_3, T_4,
    <<" ","R","e","s","e","r","v","a","r">>, T_cancelar,
    <<"C","o","n","f","i","r","m","a","r">>, T_locales,
    <<"P","a","s","t","a">>, <<"5","1">>, <<"2"," ","p","e","r","s","o","n","a","s">>,
    DATE1, T_lunch, <<"D","I","N","N","E","R">>,
    [i \in 1..36 |-> IF UUIDs[1][i] = "f" THEN "F" ELSE UUIDs[1][i]], UUIDs[2],
    <<"z","z","z">> }

\* the first message of a webhook event: its text body and its sender, either
\* of which may be missing (statuses, media messages)
WebhookBodies ==
  [text : {Some(t) : t \in Texts}, from : {Some(w) : w \in WaIds}]
  \cup { [text |-> None, from |-> None], [text |-> None, from |-> Some("wa1")],
         [text |-> Some(<<>>), from |-> Some("wa1")],
         [text |-> Some(T_menu), from |-> None] }

\* outcomes of sendWhatsAppText: the configuration is missing, the API
\* answers ok or not ok, or fetch rejects
SendOutcomes == {"missing_env", "ok", "not_ok", "throw"}

\* mutant of Caught: the catch block answers 500
Caught_500(r) ==
  Respond([r EXCEPT !.threw = TRUE, !.failed = TRUE], 500, Some("Internal Server Error"))

\* catch (e) { ...; return res.sendStatus(200); }
Caught(r) == Respond([r EXCEPT !.threw = TRUE, !.failed = TRUE], 200, Some("OK"))

\* mutant of DoUpsert: the handler answers after the upsert without sending
DoUpsert_noSend(k, r, patch, assign) ==
  LET r1 == [Called(r, "upsertSession", <<r.wa, patch>>) EXCEPT
               !.pending = None, !.assign = FALSE] IN
  /\ sessions' = upsertSession(sessions, r.wa, patch)
  /\ req' = [req EXCEPT ![k] = Respond(r1, 200, Some("OK"))]

\* await upsertSession(wa_id, patch) in handler state r, then on to the send;
\* the upsert may throw
DoUpsert(k, r, patch, assign) ==
  LET r1 == [Called(r, "upsertSession", <<r.wa, patch>>) EXCEPT
               !.pending = None, !.assign = FALSE] IN
  \/ /\ req' = [req EXCEPT ![k] = Caught(r1)]
     /\ UNCHANGED sessions
  \/ /\ sessions' = upsertSession(sessions, r.wa, patch)
     /\ req' = [req EXCEPT ![k] =
                  [r1 EXCEPT !.pc = "send",
                             !.session = IF assign THEN getSession(sessions', r.wa) ELSE @]]

\* app.post("/webhook"): the event is read; events without text or sender
\* are answered at once, global commands go to resetSession
WebhookReceive(k) ==
  /\ CanStart(k)
  /\ \E q \in WebhookBodies :
       LET r0 == NewReq("webhook", q) IN
       IF FalsyText(q.text) \/ FalsyStr(q.from)
       THEN req' = [req EXCEPT ![k] = Respond(r0, 200, Some("OK"))]
       ELSE LET n == normalizeText(q.text)
                r == [r0 EXCEPT !.wa = Val(q.from), !.text = n,
                                !.before = getSession(sessions, Val(q.from))]
            IN  req' = [req EXCEPT ![k] =
                    IF IsMenuCommand(n)
                    THEN [r EXCEPT !.pc = "upsert", !.pending = Some(ResetPatch),
                                   !.reply = Reply("menu")]
                    ELSE IF IsResetCommand(n)
                    THEN [r EXCEPT !.pc = "upsert", !.pending = Some(ResetPatch),
                                   !.reply = Reply("restarted")]
                    ELSE [r EXCEPT !.pc = "get"]]
  /\ nreq' = nreq + 1
  /\ UNCHANGED <<sessions, reservations, shown>>

\* let session = await getSession(wa_id)
WebhookGetSession(k) ==
  /\ req[k].kind = "webhook" /\ req[k].pc = "get"
  /\ \E error \in BOOLEAN :
       LET r     == Called(req[k], "getSession", req[k].wa)
           found == getSession(sessions, r.wa)
       IN  req' = [req EXCEPT ![k] =
                 IF error THEN Caught(r)
                 ELSE [r EXCEPT !.session = found,
                                !.pc = IF found = None THEN "create" ELSE "dispatch"]]
  /\ UNCHANGED <<sessions, reservations, nreq, shown>>

\* if (!session) session = await upsertSession(wa_id, { state: "IDLE" })
WebhookCreateSession(k) ==
  /\ req[k].kind = "webhook" /\ req[k].pc = "create"
  /\ LET r == Called(req[k], "upsertSession", <<req[k].wa, [state |-> "IDLE"]>>) IN
     \/ /\ req' = [req EXCEPT ![k] = Caught(r)]
        /\ UNCHANGED sessions
     \/ /\ sessions' = upsertSession(sessions, r.wa, [state |-> "IDLE"])
        /\ req' = [req EXCEPT ![k] =
                     [r EXCEPT !.pc = "dispatch", !.session = getSession(sessions', r.wa)]]
  /\ UNCHANGED <<reservations, nreq, shown>>

\* the state machine: the branch for session.state and the text, with the
\* first call the branch makes
WebhookDispatch(k) ==
  /\ req[k].kind = "webhook" /\ req[k].pc = "dispatch"
  /\ LET r       == req[k]
         session == Val(r.session)
         plan    == Plan(session, r.text)
         r1      == [r EXCEPT !.reply = plan.reply]
     IN
     CASE plan.op = "reply" ->
            /\ req' = [req EXCEPT ![k] = [r1 EXCEPT !.pc = "send"]]
            /\ UNCHANGED <<sessions, reservations>>
       [] plan.op = "upsert" ->
            /\ DoUpsert(k, r1, plan.patch, plan.assign)
            /\ UNCHANGED reservations
       [] plan.op = "avail" ->
            /\ \E out \in AvailOutcomes(reservations, session.restaurant_code,
                                        session.service_date, session.service,
                                        session.party_size) :
                 LET r2 == [Called(r1, "rpc:check_availability",
                                   <<session.restaurant_code, session.service_date,
                                     session.service, session.party_size>>)
                              EXCEPT !.avail = out] IN
                 req' = [req EXCEPT ![k] =
                           IF out = "error"
                           THEN [Err(r2) EXCEPT !.pc = "send",
                                                !.reply = Reply("availability_error")]
                           ELSE IF availOk(out) THEN [r2 EXCEPT !.pc = "lookup"]
                           ELSE [r2 EXCEPT !.pc = "alternatives"]]
            /\ UNCHANGED <<sessions, reservations>>
       [] plan.op = "pick" ->
            /\ \E error \in BOOLEAN, altData \in AltLists :
                 LET r2  == Suggested(Called(r1, "rpc:suggest_alternatives",
                                   <<session.restaurant_code, session.service_date,
                                     session.service, session.party_size, Some(DaysAhead)>>),
                                   error, altData)
                     out == PickOutcome(error, altData, Val(parseInt(Some(r.text))))
                 IN  req' = [req EXCEPT ![k] =
                           [(IF error THEN Err(r2) ELSE r2) EXCEPT
                              !.pc = "upsert", !.pending = Some(out.patch),
                              !.reply = out.reply]]
            /\ UNCHANGED <<sessions, reservations>>
       [] plan.op = "cancel" ->
            LET r2   == [Called(r1, "update:reservations", Some(r.text)) EXCEPT
                           !.pc = "upsert", !.pending = Some(ResetPatch)]
                data == cancelledData(reservations, r.text)
            IN  /\ \/ /\ req' = [req EXCEPT ![k] =
                                   [Err(r2) EXCEPT !.reply = Reply("cancel_error")]]
                      /\ UNCHANGED reservations
                   \/ /\ reservations' = cancelRows(reservations, r.text)
                      /\ req' = [req EXCEPT ![k] =
                                   [r2 EXCEPT !.reply =
                                      IF data = {} THEN Reply("cancel_not_found")
                                      ELSE ReplyWith("cancelled", (CHOOSE row \in data : TRUE).id)]]
                /\ UNCHANGED sessions
  /\ UNCHANGED <<nreq, shown>>

\* CONFIRM_RESERVATION, available: restaurants.select("id").eq("code", r)
WebhookLookupRestaurant(k) ==
  /\ req[k].kind = "webhook" /\ req[k].pc = "lookup"
  /\ \E error \in BOOLEAN :
       LET r    == Called(req[k], "select:restaurants", Val(req[k].session).restaurant_code)
           rows == restaurantRows(Val(r.session).restaurant_code)
       IN  req' = [req EXCEPT ![k] =
                 IF error \/ rows = {}
                 THEN [(IF error THEN Err(r) ELSE r) EXCEPT
                         !.pc = "send", !.reply = Reply("restaurant_error")]
                 ELSE [r EXCEPT !.pc = "insert",
                                !.rid = Some((CHOOSE row \in rows : TRUE).id)]]
  /\ UNCHANGED <<sessions, reservations, nreq, shown>>

\* CONFIRM_RESERVATION: reservations.insert({...}); on success the session
\* is to be reset next
WebhookInsert(k) ==
  /\ req[k].kind = "webhook" /\ req[k].pc = "insert"
  /\ LET r == Called(req[k], "insert:reservations", WebhookRow(req[k], <<>>)) IN
     \/ /\ req' = [req EXCEPT ![k] =
                     [Err(r) EXCEPT !.pc = "send", !.reply = Reply("insert_error")]]
        /\ UNCHANGED reservations
     \/ /\ Cardinality(reservations) < MaxReservations
        /\ LET id == NextId(reservations) IN
           /\ reservations' = reservations \cup {WebhookRow(r, id)}
           /\ req' = [req EXCEPT ![k] =
                        [r EXCEPT !.newId = Some(id), !.pc = "upsert",
                                  !.pending = Some(ResetPatch),
                                  !.reply = ReplyWith("confirmed", id)]]
  /\ UNCHANGED <<sessions, nreq, shown>>

\* CONFIRM_RESERVATION, not available: rpc("suggest_alternatives")
WebhookSuggestAlternatives(k) ==
  /\ req[k].kind = "webhook" /\ req[k].pc = "alternatives"
  /\ \E error \in BOOLEAN, altData \in AltLists :
       LET r == Suggested(Called(req[k], "rpc:suggest_alternatives",
                       <<Val(req[k].session).restaurant_code, Val(req[k].session).service_date,
                         Val(req[k].session).service, Val(req[k].session).party_size,
                         Some(DaysAhead)>>), error, altData)
           out == AlternativesOutcome(error, altData)
       IN
       req' = [req EXCEPT ![k] =
                 [(IF error THEN Err(r) ELSE r) EXCEPT
                    !.pc = "upsert", !.pending = Some(out.patch), !.reply = out.reply]]
  /\ UNCHANGED <<sessions, reservations, nreq, shown>>

\* the resetSession / upsertSession call that follows a call of the branch
\* (or the global command)
WebhookUpsert(k) ==
  /\ req[k].kind = "webhook" /\ req[k].pc = "upsert"
  /\ DoUpsert(k, req[k], Val(req[k].pending), req[k].assign)
  /\ UNCHANGED <<reservations, nreq, shown>>

\* await sendWhatsAppText(wa_id, reply); return res.sendStatus(200)
WebhookSend(k) ==
  /\ req[k].kind = "webhook" /\ req[k].pc = "send"
  /\ \E out \in SendOutcomes :
       LET r == [Called(req[k], "sendWhatsAppText", <<req[k].wa, req[k].reply>>) EXCEPT
                   !.sent = Append(@, [reply |-> req[k].reply, outcome |-> out])]
       IN  /\ req' = [req EXCEPT ![k] =
                    IF out = "throw" THEN Caught(r) ELSE Respond(r, 200, Some("OK"))]
           /\ shown' = IF req[k].reply.tag # "alternatives" THEN shown
                       ELSE [shown EXCEPT ![req[k].wa] =
                               IF out = "ok" THEN req[k].reply.data ELSE <<>>]
  /\ UNCHANGED <<sessions, reservations, nreq>>

----------------------------------------------------------------------------
(* Specifications                                                          *)

\* rows chat_sessions may hold when the server starts: none, or a row whose
\* state is none the state machine names
InitSessions ==
  { {},
    { [wa_id |-> "wa2", state |-> "ASK_TIME", restaurant_code |-> Some("deliclub"),
       party_size |-> Some(2), service_date |-> None, service |-> None] } }

\* rows reservations may hold when the server starts: none, or two
\* reservations made earlier through POST /reserve
InitReservations ==
  { {},
    { [id |-> UUIDs[1], restaurant_id |-> "rest-1", customer_name |-> "Ana",
       customer_phone |-> "555-0101", party_size |-> Some(2),
       service_date |-> Some(DATE1), service |-> Some("DINNER"), status |-> "CONFIRMED"],
      [id |-> UUIDs[2], restaurant_id |-> "rest-2", customer_name |-> "Luis",
       customer_phone |-> "555-0102", party_size |-> Some(3),
       service_date |-> Some(DATE2), service |-> Some("LUNCH"), status |-> "CONFIRMED"] } }

Init ==
  /\ sessions \in InitSessions
  /\ reservations \in InitReservations
  /\ req = [k \in Slots |-> IdleReq]
  /\ nreq = 0
  /\ shown = [w \in WaIds |-> <<>>]

\* the steps of a POST /webhook handler in slot k, once the event is received
WebhookStep(k) ==
  \/ WebhookGetSession(k) \/ WebhookCreateSession(k) \/ WebhookDispatch(k)
  \/ WebhookLookupRestaurant(k) \/ WebhookInsert(k) \/ WebhookSuggestAlternatives(k)
  \/ WebhookUpsert(k) \/ WebhookSend(k)

\* WhatsApp events are handled one at a time
Next ==
  \/ WebhookReceive(1)
  \/ WebhookStep(1)
  \/ Close(1)

Spec == Init /\ [][Next]_vars

\* the requests of the HTTP API are handled one at a time
NextHttp ==
  \/ Restaurants(1) \/ Availability(1) \/ Alternatives(1)
  \/ ReserveReceive(1) \/ Cancel(1) \/ WebhookVerify(1)
  \/ ReserveCheckAvailability(1) \/ ReserveLookupRestaurant(1) \/ ReserveInsert(1)
  \/ Close(1)

SpecHttp == Init /\ [][NextHttp]_vars

\* requests received in a run where handlers overlap
MaxConcurrent == 3

\* the events of such a run: texts "1", "2" and "menu" from either sender
ConcBodies == [text : {Some(T_1), Some(T_2), Some(T_menu)}, from : {Some(w) : w \in WaIds}]

\* a session the state machine has led to CONFIRM_RESERVATION
ConfirmRow(wa_id) ==
  [wa_id |-> wa_id, state |-> "CONFIRM_RESERVATION", restaurant_code |-> Some("deliclub"),
   party_size |-> Some(2), service_date |-> Some(DATE1), service |-> Some("LUNCH")]

\* rows chat_sessions may hold when such a run starts
ConcSessions ==
  { {}, {ConfirmRow("wa1")} } \cup { S \cup {ConfirmRow("wa1")} : S \in InitSessions }

InitConc ==
  /\ sessions \in ConcSessions
  /\ reservations = {}
  /\ req = [k \in Slots |-> IdleReq]
  /\ nreq = 0
  /\ shown = [w \in WaIds |-> <<>>]

\* a WhatsApp event arrives while another handler may still be running
WebhookReceiveConc(k) ==
  /\ nreq < MaxConcurrent
  /\ WebhookReceive(k)
  /\ req'[k].q \in ConcBodies

\* WhatsApp events are handled concurrently: the handlers in the two slots
\* interleave at their awaits
NextConc ==
  \E k \in Slots :
    \/ WebhookReceiveConc(k)
    \/ WebhookStep(k)
    \/ Close(k)

SpecConc == InitConc /\ [][NextConc]_vars

\* the reservation requests of a run where /reserve and WhatsApp
\* confirmations overlap: /reserve bodies for deliclub, DATE1, LUNCH with a
\* party of 2 or of 3, and the text "1" from either sender
RaceReserveBodies == {ReserveBase, [ReserveBase EXCEPT !.party = Some(<<"3", " ", "p">>)]}
RaceEvents == [text : {Some(T_1)}, from : {Some(w) : w \in WaIds}]

\* such a run starts with wa1 about to confirm the same restaurant, date
\* and service, and no reservation yet
InitRace ==
  /\ sessions = {ConfirmRow("wa1")}
  /\ reservations = {}
  /\ req = [k \in Slots |-> IdleReq]
  /\ nreq = 0
  /\ shown = [w \in WaIds |-> <<>>]

\* a /reserve request arrives while another handler may still be running
ReserveReceiveRace(k) ==
  /\ nreq < MaxConcurrent
  /\ ReserveReceive(k)
  /\ req'[k].q \in RaceReserveBodies

\* a WhatsApp "1" arrives while another handler may still be running
WebhookReceiveRace(k) ==
  /\ nreq < MaxConcurrent
  /\ WebhookReceive(k)
  /\ req'[k].q \in RaceEvents

\* the steps of a POST /reserve handler in slot k, once the body is valid
ReserveStep(k) ==
  ReserveCheckAvailability(k) \/ ReserveLookupRestaurant(k) \/ ReserveInsert(k)

\* /reserve requests and WhatsApp events are handled concurrently: the
\* handlers in the two slots interleave at their awaits
NextRace ==
  \E k \in Slots :
    \/ ReserveReceiveRace(k)
    \/ ReserveStep(k)
    \/ WebhookReceiveRace(k)
    \/ WebhookStep(k)
    \/ Close(k)

SpecRace == InitRace /\ [][NextRace]_vars

----------------------------------------------------------------------------
(* Properties of the HTTP API, checked under SpecHttp                      *)

\* the request in slot k has been answered
Done(k) == req[k].pc = "done"
\* the answers to the request in slot k
Status(k) == req[k].responses[1].status
Body(k) == req[k].responses[1].body
\* names of the calls the handler in slot k has made
CallNames(k) == [i \in DOMAIN req[k].calls |-> req[k].calls[i].name]
\* the last call the handler in slot k has made
LastCall(k) == req[k].calls[Len(req[k].calls)]

\* a field of a /reserve body or of a query is missing, or party does not parse
MissingReserveField(q) ==
  \/ q.restaurant = None \/ q.restaurant = Some("")
  \/ q.date = None \/ q.date = Some(<<>>)
  \/ q.service = None \/ q.service = Some("")
  \/ q.customer_name = None \/ q.customer_name = Some("")
  \/ q.customer_phone = None \/ q.customer_phone = Some("")
  \/ parseInt(q.party) = None

\* C4, state part: a /reserve request is answered once, by 400, 500, 409, 404
\* or 200 under the stated conditions, and a row it inserted was inserted after
\* check_availability said ok for the request's values and the code resolved
C4_Outcome ==
  req[1].kind = "reserve" =>
    LET r == req[1]
        q == r.q
    IN
    /\ Len(r.responses) = (IF Done(1) THEN 1 ELSE 0)
    /\ Done(1) =>
         \/ /\ Status(1) = 400 /\ MissingReserveField(q)
            /\ r.calls = <<>> /\ r.newId = None
         \/ /\ Status(1) = 500 /\ r.failed /\ r.newId = None
            /\ LastCall(1).name \in {"rpc:check_availability", "select:restaurants",
                                     "insert:reservations"}
         \/ /\ Status(1) = 409 /\ r.avail \in {"absent", "no"} /\ ~r.failed
            /\ CallNames(1) = <<"rpc:check_availability">> /\ r.newId = None
         \/ /\ Status(1) = 404 /\ r.avail = "ok" /\ ~r.failed /\ r.newId = None
            /\ ~\E rest \in RestaurantsTable : Some(rest.code) = q.restaurant
         \/ /\ Status(1) = 200 /\ r.newId # None /\ ~r.failed
            /\ Body(1).reservation_id = Val(r.newId)
    /\ r.newId # None =>
         /\ ~MissingReserveField(q)
         /\ r.avail = "ok"
         /\ r.calls[1] = [name |-> "rpc:check_availability",
                          args |-> <<q.restaurant, q.date, q.service, parseInt(q.party)>>]
         /\ \E rest \in RestaurantsTable, row \in reservations :
              /\ Some(rest.code) = q.restaurant
              /\ row.id = Val(r.newId) /\ row.restaurant_id = rest.id
              /\ row.service_date = q.date /\ row.service = q.service
              /\ row.party_size = parseInt(q.party)
              /\ row.customer_name = Val(q.customer_name)
              /\ row.customer_phone = Val(q.customer_phone)
              /\ row.status = "CONFIRMED"

\* ids of the rows of a reservations table
Ids(R) == {row.id : row \in R}

\* C4, step part: a step of a /reserve request adds at most the one row the
\* request reports as inserted, and changes no other row
C4_InsertOnly ==
  (req'[1].kind = "reserve" /\ reservations' # reservations) =>
     /\ req[1].newId = None /\ req'[1].newId # None
     /\ Ids(reservations') = Ids(reservations) \cup {Val(req'[1].newId)}
     /\ Val(req'[1].newId) \notin Ids(reservations)
     /\ reservations \subseteq reservations'

\* C4: POST /reserve ends in exactly one of 400, 500, 409, 404 or 200 with
\* the id of the new reservation, and inserts a row, with status CONFIRMED,
\* only after check_availability returned ok for the same restaurant, date,
\* service and party and the restaurant code resolved
C4_Reserve == [](C4_Outcome) /\ [][C4_InsertOnly]_vars

\* a /reserve request answered 200 whose body has a party that parses by its
\* leading digits only
C4_Witness ==
  /\ req[1].kind = "reserve" /\ Done(1) /\ Status(1) = 200
  /\ req[1].q.party = Some(<<"3", " ", "p">>)
  /\ \E row \in reservations : row.id = Val(req[1].newId) /\ row.party_size = Some(3)

\* C5 as claimed: every 500, 409 and 404 answer of the HTTP API carries the
\* same message field, error
C5_ErrorFieldEverywhere ==
  (Done(1) /\ req[1].kind \in {"restaurants", "availability", "alternatives", "reserve", "cancel"}
           /\ Status(1) \in {500, 409, 404})
    => "error" \in DOMAIN Body(1)

\* C5, amended: every 500 and 404 answer of /restaurants, /availability,
\* /alternatives, /reserve and /cancel carries the message in the field error;
\* the 409 answer of /reserve has no error field and carries reason and
\* details instead
C5_ErrorField ==
  (Done(1) /\ req[1].kind \in {"restaurants", "availability", "alternatives", "reserve", "cancel"})
    => /\ Status(1) \in {500, 404} => DOMAIN Body(1) = {"ok", "error"} /\ Body(1).ok = FALSE
       /\ Status(1) = 409 => /\ req[1].kind = "reserve"
                             /\ DOMAIN Body(1) = {"ok", "reason", "details"}
                             /\ Body(1).ok = FALSE

\* /reserve has answered 409
C5_Witness ==
  /\ req[1].kind = "reserve" /\ Done(1) /\ Status(1) = 409
  /\ req[1].avail = "no"

\* a parameter of an /availability or /alternatives query is missing, or
\* party does not parse
MissingQueryField(q) ==
  \/ q.restaurant = None \/ q.restaurant = Some("")
  \/ q.date = None \/ q.date = Some(<<>>)
  \/ q.service = None \/ q.service = Some("")
  \/ parseInt(q.party) = None

\* the request r is malformed in the sense of the 400 answers
Malformed(r) ==
  \/ r.kind \in {"availability", "alternatives"} /\ MissingQueryField(r.q)
  \/ r.kind = "reserve" /\ MissingReserveField(r.q)
  \/ r.kind = "cancel" /\ r.q.reservation_id \in {None, Some(<<>>)}

\* C6, state part: a malformed request is answered 400, once, and its handler
\* has made no call; a well-formed one is not answered 400
C6_Answer400 ==
  req[1].kind \in {"availability", "alternatives", "reserve", "cancel"} =>
    /\ Malformed(req[1]) =>
         /\ Done(1) /\ Len(req[1].responses) = 1 /\ Status(1) = 400
         /\ req[1].calls = <<>> /\ req[1].newId = None
    /\ (Done(1) /\ Status(1) = 400) => Malformed(req[1])

\* C6, step part: the step that receives a malformed request leaves both
\* tables as they are
C6_Frame ==
  Malformed(req'[1]) => (sessions' = sessions /\ reservations' = reservations)

\* C6: a malformed /availability, /alternatives, /reserve or /cancel request
\* is answered 400 without any call on the database and without a change of
\* reservations or sessions
C6_Malformed == [](C6_Answer400) /\ [][C6_Frame]_vars

\* /alternatives answered 400 for a party that does not parse, with a
\* reservation in the table
C6_Witness ==
  /\ req[1].kind = "alternatives" /\ Done(1) /\ Status(1) = 400
  /\ req[1].q.party = Some(<<"x", "2">>)
  /\ \E row \in reservations : row.status = "CONFIRMED"

\* C7: POST /cancel with a reservation_id answers 200, 404 or 500; without a
\* database error it answers 200 with (id, CANCELLED) and cancels the row of
\* that id if there is one, and 404 with no change if there is none; no row
\* of another id is changed and no row is added or removed
C7_CancelStep ==
  (req[1].pc = "idle" /\ req'[1].kind = "cancel"
     /\ req'[1].q.reservation_id \notin {None, Some(<<>>)}) =>
    LET r   == req'[1]
        id  == Val(r.q.reservation_id)
        st  == r.responses[1].status
        hit == {row \in reservations : row.id = id}
    IN
    /\ r.pc = "done" /\ Len(r.responses) = 1
    /\ st \in {200, 404, 500}
    /\ st = 500 <=> r.failed
    /\ (~r.failed /\ hit # {}) =>
          /\ st = 200
          /\ r.responses[1].body = [ok |-> TRUE,
                                    reservation |-> [id |-> id, status |-> "CANCELLED"]]
          /\ \A row \in hit : [row EXCEPT !.status = "CANCELLED"] \in reservations'
          /\ \A row \in reservations' : row.id = id => row.status = "CANCELLED"
    /\ (~r.failed /\ hit = {}) => (st = 404 /\ reservations' = reservations)
    /\ \A row \in reservations : row.id # id => row \in reservations'
    /\ Ids(reservations') = Ids(reservations)
    /\ Cardinality(reservations') = Cardinality(reservations)
    /\ sessions' = sessions

C7_Cancel == [][C7_CancelStep]_vars

\* /cancel answered 200 for one of two reservations, the other still CONFIRMED
C7_Witness ==
  /\ req[1].kind = "cancel" /\ Done(1) /\ Status(1) = 200
  /\ \E a, b \in reservations :
       /\ Some(a.id) = req[1].q.reservation_id /\ a.status = "CANCELLED"
       /\ b.id # a.id /\ b.status = "CONFIRMED"

\* C8: GET /webhook answers 200 with hub.challenge if and only if hub.mode is
\* "subscribe" and hub.verify_token equals WHATSAPP_VERIFY_TOKEN, and 403
\* otherwise
C8_Verify ==
  (req[1].kind = "verify") =>
    LET q       == req[1].q
        matches == q.mode = Some("subscribe") /\ q.token = q.expected
    IN  /\ Done(1) /\ Len(req[1].responses) = 1
        /\ matches => (Status(1) = 200 /\ Body(1) = q.challenge)
        /\ ~matches => Status(1) = 403
        /\ req[1].calls = <<>>

\* the handshake was refused although the token matched: hub.mode was not
\* "subscribe"
C8_Witness ==
  /\ req[1].kind = "verify" /\ Done(1) /\ Status(1) = 403
  /\ req[1].q.token = req[1].q.expected /\ req[1].q.mode = Some("unsubscribe")

----------------------------------------------------------------------------
(* Properties of POST /webhook, checked under Spec                         *)

\* slot k holds a POST /webhook handler
IsWebhook(k) == req[k].kind = "webhook"

\* slot k holds a POST /webhook handler of an inbound text message
IsMessage(k) ==
  /\ IsWebhook(k)
  /\ ~FalsyText(req[k].q.text)
  /\ ~FalsyStr(req[k].q.from)

\* C1: POST /webhook answers HTTP 200 exactly once for every request: no
\* answer is sent while the handler runs, a handler that has not answered can
\* always take its next step, and the handler ends with one answer of status
\* 200, whatever the event, the session, the text, and whichever call failed
\* or threw.
C1_Always200 ==
  IsWebhook(1) =>
    /\ Len(req[1].responses) = (IF Done(1) THEN 1 ELSE 0)
    /\ Done(1) => Status(1) = 200
    /\ ~Done(1) => ENABLED WebhookStep(1)

\* a handler whose send threw after a session upsert has answered 200
C1_Witness ==
  /\ IsMessage(1) /\ Done(1)
  /\ req[1].threw
  /\ Len(req[1].calls) >= 3
  /\ LastCall(1).name = "sendWhatsAppText"
  /\ Status(1) = 200

\* the row is in state IDLE with its four data fields null
IsReset(row) ==
  /\ row.state = "IDLE"
  /\ row.restaurant_code = None /\ row.party_size = None
  /\ row.service_date = None /\ row.service = None

\* the handler in slot k found a row whose state the state machine does not name
FoundUnknownState(k) ==
  /\ IsMessage(k)
  /\ req[k].before # None
  /\ Val(req[k].before).state \notin States

\* the handler in slot k threw before it sent a reply: a session read or
\* upsert failed
ThrewBeforeSend(k) == req[k].threw /\ req[k].sent = <<>>

C2_WrittenStates ==
  \A row \in sessions' : row \in sessions \/ row.state \in States

\* a message is dispatched on the stored row of its sender, which is a fresh
\* IDLE row when the sender had none; and a row found with another state is
\* reset by the message unless a session call of the handler failed, which
\* leaves the row as it was
C2_Rows ==
  /\ IsWebhook(1) /\ req[1].pc = "dispatch" =>
       /\ req[1].session # None
       /\ req[1].session = getSession(sessions, req[1].wa)
       /\ req[1].before = None => IsReset(Val(req[1].session))
  /\ FoundUnknownState(1) /\ Done(1) =>
       /\ getSession(sessions, req[1].wa) # None
       /\ IF ThrewBeforeSend(1)
          THEN getSession(sessions, req[1].wa) = req[1].before
          ELSE IsReset(Val(getSession(sessions, req[1].wa)))

Edges ==
  { <<"IDLE", "ASK_RESTAURANT">>, <<"IDLE", "ASK_CANCEL_ID">>,
    <<"ASK_RESTAURANT", "ASK_PARTY_SIZE">>,
    <<"ASK_PARTY_SIZE", "ASK_DATE">>,
    <<"ASK_DATE", "ASK_SERVICE">>,
    <<"ASK_SERVICE", "CONFIRM_RESERVATION">>,
    <<"CONFIRM_RESERVATION", "ASK_DATE">>, <<"CONFIRM_RESERVATION", "ASK_SERVICE">>,
    <<"CONFIRM_RESERVATION", "ASK_ALT_PICK">>, <<"CONFIRM_RESERVATION", "IDLE">>,
    <<"ASK_ALT_PICK", "CONFIRM_RESERVATION">>, <<"ASK_ALT_PICK", "IDLE">>,
    <<"ASK_CANCEL_ID", "IDLE">> }

\* the normalized texts that are global commands
GlobalTexts == {T_menu, T_hola, T_hi, T_reiniciar, T_reset}

\* the state of a row that may be absent; a wa_id without a row is in IDLE,
\* the state its row is created in
StateOf(m) == IF m = None THEN "IDLE" ELSE Val(m).state

\* C3: when the messages of a wa_id are handled one at a time, a message
\* changes the session state of its sender, from the state found when the
\* message arrived to the state stored at any point of its handling, only
\* along IDLE -> ASK_RESTAURANT | ASK_CANCEL_ID, ASK_RESTAURANT ->
\* ASK_PARTY_SIZE, ASK_PARTY_SIZE -> ASK_DATE, ASK_DATE -> ASK_SERVICE,
\* ASK_SERVICE -> CONFIRM_RESERVATION, CONFIRM_RESERVATION -> ASK_DATE |
\* ASK_SERVICE | ASK_ALT_PICK | IDLE, ASK_ALT_PICK -> CONFIRM_RESERVATION |
\* IDLE, ASK_CANCEL_ID -> IDLE, or from any state to IDLE when the text is a
\* global command.
C3_Edges ==
  IsMessage(1) /\ StateOf(req[1].before) \in States =>
    LET old == StateOf(req[1].before)
        new == StateOf(getSession(sessions, req[1].wa))
    IN  \/ new = old
        \/ <<old, new>> \in Edges
        \/ new = "IDLE" /\ req[1].text \in GlobalTexts

\* a message has moved its sender from ASK_ALT_PICK to CONFIRM_RESERVATION
C3_Witness ==
  /\ IsMessage(1) /\ Done(1)
  /\ StateOf(req[1].before) = "ASK_ALT_PICK"
  /\ StateOf(getSession(sessions, req[1].wa)) = "CONFIRM_RESERVATION"

\* slot k handles a text that is a global command once trimmed and lower-cased
GlobalCommand(k) == IsMessage(k) /\ normalizeText(req[k].q.text) \in GlobalTexts

\* the handler in slot k has made no call but session upserts and sends
OnlyResetsAndSends(k) ==
  \A i \in DOMAIN req[k].calls :
    req[k].calls[i].name \in {"upsertSession", "sendWhatsAppText"}

C10_Reset ==
  GlobalCommand(1) =>
    /\ OnlyResetsAndSends(1)
    /\ req[1].session = None
    /\ Done(1) =>
         IF ThrewBeforeSend(1)
         THEN getSession(sessions, req[1].wa) = req[1].before
         ELSE /\ getSession(sessions, req[1].wa) # None
              /\ IsReset(Val(getSession(sessions, req[1].wa)))

\* no step of the handling of a global command changes the reservations
C10_Frame == GlobalCommand(1) => reservations' = reservations

Dispatched(k) ==
  /\ IsMessage(k)
  /\ req[k].before # None
  /\ req[k].session # None
  /\ req[k].pc \notin {"get", "create", "dispatch"}

\* the text is a decimal numeral with a value in lo..hi
IntegerIn(t, lo, hi) ==
  /\ t # <<>>
  /\ \A i \in DOMAIN t : IsDigit(t[i])
  /\ DigitsValue(t, 0) >= lo /\ DigitsValue(t, 0) <= hi

\* the answers each asking state recognises
Recognised(state, n) ==
  CASE state = "ASK_RESTAURANT" ->
         n \in {T_1, T_2, T_3, T_deliclub, T_brodo_pasta, T_pasta, T_brodo_pizza, T_pizza}
    [] state = "ASK_PARTY_SIZE" -> IntegerIn(n, 1, 50)
    [] state = "ASK_DATE" -> isISODate(n)
    [] state = "ASK_SERVICE" -> n \in {T_1, T_2, T_lunch, T_dinner}
    [] state = "CONFIRM_RESERVATION" ->
         n \in {T_1, T_2, T_3, T_4, T_confirmar, T_cancelar}
    [] state = "ASK_ALT_PICK" -> IntegerIn(n, 1, 3)
    [] state = "ASK_CANCEL_ID" -> isUUID(n)
    [] OTHER -> TRUE

\* the handler in slot k has made a call of one of the names
HasCalled(k, names) == \E i \in DOMAIN req[k].calls : req[k].calls[i].name \in names

\* C11, violated: an unrecognised answer in ASK_RESTAURANT, ASK_PARTY_SIZE,
\* ASK_DATE, ASK_SERVICE, CONFIRM_RESERVATION, ASK_ALT_PICK or ASK_CANCEL_ID
\* makes the handler perform no session upsert and no reservation write, leaves
\* the session row exactly as it was, and exactly one reply is sent.
C11_Unrecognised ==
  Dispatched(1) /\ ~Recognised(StateOf(req[1].before), req[1].text) =>
    /\ ~HasCalled(1, {"upsertSession", "insert:reservations", "update:reservations"})
    /\ getSession(sessions, req[1].wa) = req[1].before
    /\ Done(1) => Len(req[1].sent) = 1

\* the handler in slot k has called check_availability for the values of the
\* row and was answered ok
CheckedAvailable(r, row) ==
  /\ r.avail = "ok"
  /\ \E i \in DOMAIN r.calls :
       /\ r.calls[i].name = "rpc:check_availability"
       /\ r.calls[i].args = <<row.restaurant_code, row.service_date, row.service, row.party_size>>

\* a step that adds a reservation is a step of a handler of 1 or confirmar
\* that found its sender in CONFIRM_RESERVATION, was answered ok by
\* check_availability for the values of the session and resolved the
\* restaurant code; the row added carries the values of the session
C12_InsertStep ==
  Ids(reservations') # Ids(reservations) =>
    LET r   == req'[1]
        old == Val(req[1].before) IN
    /\ IsMessage(1) /\ req[1].pc = "insert"
    /\ StateOf(req[1].before) = "CONFIRM_RESERVATION"
    /\ getSession(sessions, req[1].wa) = req[1].before
    /\ r.text \in {T_1, T_confirmar}
    /\ CheckedAvailable(r, old)
    /\ \E rest \in RestaurantsTable :
         /\ Some(rest.code) = old.restaurant_code
         /\ r.rid = Some(rest.id)
         /\ \E row \in reservations' :
              /\ reservations' = reservations \cup {row}
              /\ row \notin reservations
              /\ row.restaurant_id = rest.id
              /\ row.party_size = old.party_size
              /\ row.service_date = old.service_date
              /\ row.service = old.service
              /\ row.customer_phone = r.wa
              /\ row.status = "CONFIRMED"

\* C12: in the WhatsApp flow a reservation row is inserted only while
\* handling 1 or confirmar in state CONFIRM_RESERVATION, only after
\* check_availability returned ok in that handler for the session's
\* restaurant_code, service_date, service and party_size and the code resolved
\* to an id; the row carries those values, customer_phone equal to the
\* sender's wa_id and status CONFIRMED; no other message inserts a reservation.
C12_InsertOnly == [][C12_InsertStep]_vars

\* a confirmation has inserted a reservation for its sender
C12_Witness ==
  /\ IsMessage(1) /\ Done(1)
  /\ req[1].newId # None
  /\ \E row \in reservations :
       /\ Some(row.id) = req[1].newId
       /\ row.customer_phone = req[1].wa
       /\ row.status = "CONFIRMED"

\* C13, violated: once the CONFIRM_RESERVATION handler has inserted a
\* reservation and has finished, whatever the following calls did, the session
\* of the sender is IDLE with all four data fields null and exactly one reply,
\* carrying the new reservation id, has been sent.
C13_ResetAfterInsert ==
  IsMessage(1) /\ Done(1) /\ req[1].newId # None =>
    /\ getSession(sessions, req[1].wa) # None
    /\ IsReset(Val(getSession(sessions, req[1].wa)))
    /\ Len(req[1].sent) = 1
    /\ req[1].sent[1].reply = ReplyWith("confirmed", Val(req[1].newId))

\* the handler in slot k has finished a 1 or confirmar found in
\* CONFIRM_RESERVATION
ConfirmDone(k) ==
  /\ Dispatched(k) /\ Done(k)
  /\ StateOf(req[k].before) = "CONFIRM_RESERVATION"
  /\ req[k].text \in {T_1, T_confirmar}

\* the handler in slot k called suggest_alternatives for the values of the
\* row and a horizon of 14 days
SuggestedFor(k, row) ==
  \E i \in DOMAIN req[k].calls :
    /\ req[k].calls[i].name = "rpc:suggest_alternatives"
    /\ req[k].calls[i].args =
         <<row.restaurant_code, row.service_date, row.service, row.party_size, Some(14)>>

\* what a confirmation that was not granted leaves behind, given whether a
\* failed session upsert leaves the row as it was
NotGranted(k, upsertMayFail) ==
  LET old == Val(req[k].before)
      now == getSession(sessions, req[k].wa) IN
  /\ ~HasCalled(k, {"insert:reservations"})
  /\ req[k].newId = None
  /\ req[k].avail = "error" =>
       /\ now = req[k].before
       /\ ~HasCalled(k, {"rpc:suggest_alternatives", "upsertSession"})
  /\ req[k].avail \in {"no", "absent"} =>
       /\ SuggestedFor(k, old)
       /\ IF upsertMayFail /\ ThrewBeforeSend(k) THEN now = req[k].before
          ELSE IF req[k].reply.tag = "alternatives_error"
          THEN now # None /\ IsReset(Val(now))
          ELSE now = Some([old EXCEPT !.state = "ASK_ALT_PICK"])

PickDone(k) ==
  /\ Dispatched(k) /\ Done(k)
  /\ StateOf(req[k].before) = "ASK_ALT_PICK"
  /\ IntegerIn(req[k].text, 1, 3)

\* what an answer N in ASK_ALT_PICK leaves behind, given whether a failed
\* session upsert leaves the row as it was
Picked(k, upsertMayFail) ==
  LET old  == Val(req[k].before)
      now  == getSession(sessions, req[k].wa)
      N    == DigitsValue(req[k].text, 0)
      alts == Val(req[k].alts) IN
  /\ SuggestedFor(k, old)
  /\ req[k].alts # None
  /\ ~HasCalled(k, {"insert:reservations", "rpc:check_availability"})
  /\ IF upsertMayFail /\ ThrewBeforeSend(k) THEN now = req[k].before
     ELSE IF alts.error \/ Len(alts.data) < N
     THEN now # None /\ IsReset(Val(now))
     ELSE now = Some([old EXCEPT !.state = "CONFIRM_RESERVATION",
                                 !.service_date = Some(alts.data[N].service_date),
                                 !.service = Some(alts.data[N].service)])

C16_SameAsShown ==
  LET N   == DigitsValue(req[1].text, 0)
      now == Val(getSession(sessions, req[1].wa))
      opt == shown[req[1].wa] IN
  /\ PickDone(1) /\ ~ThrewBeforeSend(1)
  /\ StateOf(getSession(sessions, req[1].wa)) = "CONFIRM_RESERVATION"
  /\ N <= Len(opt)
  => /\ now.service_date = Some(opt[N].service_date)
     /\ now.service = Some(opt[N].service)

\* slot k handles a well-formed UUID for a sender found in ASK_CANCEL_ID
CancelById(k) ==
  /\ IsMessage(k)
  /\ StateOf(req[k].before) = "ASK_CANCEL_ID"
  /\ req[k].before # None
  /\ isUUID(req[k].text)

C17_Session ==
  CancelById(1) /\ Done(1) =>
    IF ThrewBeforeSend(1)
    THEN getSession(sessions, req[1].wa) = req[1].before
    ELSE /\ getSession(sessions, req[1].wa) # None
         /\ IsReset(Val(getSession(sessions, req[1].wa)))
         /\ req[1].reply.tag \in {"cancel_error", "cancel_not_found", "cancelled"}

\* the steps of such a handler change the reservations at most by giving the
\* reservation of that id status CANCELLED
C17_Update ==
  CancelById(1) =>
    \/ reservations' = reservations
    \/ /\ req[1].pc = "dispatch" /\ ~req'[1].failed
       /\ req'[1].reply.tag = "cancelled"
       /\ \E hit \in reservations :
            /\ hit.id = req[1].text
            /\ reservations' = (reservations \ {hit}) \cup {[hit EXCEPT !.status = "CANCELLED"]}

SessionCallThrew(k) ==
  /\ req[k].threw
  /\ req[k].calls # <<>>
  /\ LastCall(k).name \in {"getSession", "upsertSession"}

\* at most one reply per request, one when the text was handled without a
\* throwing session call, none and no call at all for an event without text
\* or sender
C18_Replies ==
  IsWebhook(1) =>
    /\ Len(req[1].sent) <= 1
    /\ Len(req[1].sent) =
         Cardinality({i \in DOMAIN req[1].calls : req[1].calls[i].name = "sendWhatsAppText"})
    /\ IsMessage(1) /\ Done(1) /\ ~SessionCallThrew(1) => Len(req[1].sent) = 1
    /\ ~IsMessage(1) => req[1].sent = <<>> /\ req[1].calls = <<>> /\ Done(1)

\* the step that handles an event without text or sender leaves both tables
\* as they are
C18_Frame ==
  req'[1].kind = "webhook" /\ (FalsyText(req'[1].q.text) \/ FalsyStr(req'[1].q.from)) =>
    sessions' = sessions /\ reservations' = reservations

\* C18: each POST /webhook request sends at most one WhatsApp reply (one
\* call of sendWhatsAppText); it sends exactly one when the request carries an
\* inbound text and no session or database call throws, and it sends none and
\* performs no session read or write when the event has no text body or no
\* sender.
C18_OneReply == [](C18_Replies) /\ [][C18_Frame]_vars

\* a message whose insert returned an error has still got its one reply
C18_Witness ==
  /\ IsMessage(1) /\ Done(1)
  /\ req[1].failed /\ ~req[1].threw
  /\ HasCalled(1, {"insert:reservations"})
  /\ Len(req[1].sent) = 1
  /\ req[1].sent[1].reply.tag = "insert_error"

\* the restaurant and the service a valid answer gives
GivenRestaurant(n) ==
  CASE n \in {T_1, T_deliclub} -> "deliclub"
    [] n \in {T_2, T_brodo_pasta, T_pasta} -> "brodo-pasta"
    [] n \in {T_3, T_brodo_pizza, T_pizza} -> "brodo-pizza"
GivenService(n) ==
  CASE n \in {T_1, T_lunch} -> "LUNCH"
    [] n \in {T_2, T_dinner} -> "DINNER"

\* the row of a wa_id that has just been created
FreshRow(wa_id) ==
  [wa_id |-> wa_id, state |-> "IDLE", restaurant_code |-> None, party_size |-> None,
   service_date |-> None, service |-> None]

\* each valid answer handled without any error takes the session one step
\* along the happy path and stores the value given; a confirmation handled
\* without any error ends with a new CONFIRMED reservation and the session
\* reset, or with the session in ASK_ALT_PICK and no reservation
C19_Steps ==
  IsMessage(1) /\ Done(1) /\ ~req[1].failed =>
    LET n    == req[1].text
        was  == StateOf(req[1].before)
        old  == IF req[1].before = None THEN FreshRow(req[1].wa) ELSE Val(req[1].before)
        now  == getSession(sessions, req[1].wa) IN
    /\ was = "IDLE" /\ n \in {T_1, T_reservar} =>
         now = Some([old EXCEPT !.state = "ASK_RESTAURANT"])
    /\ was = "ASK_RESTAURANT"
         /\ n \in {T_1, T_2, T_3, T_deliclub, T_brodo_pasta, T_pasta, T_brodo_pizza, T_pizza} =>
         now = Some([FreshRow(req[1].wa) EXCEPT !.state = "ASK_PARTY_SIZE",
                                              !.restaurant_code = Some(GivenRestaurant(n))])
    /\ was = "ASK_PARTY_SIZE" /\ IntegerIn(n, 1, 50) =>
         now = Some([old EXCEPT !.state = "ASK_DATE", !.party_size = Some(DigitsValue(n, 0))])
    /\ was = "ASK_DATE" /\ isISODate(n) =>
         now = Some([old EXCEPT !.state = "ASK_SERVICE", !.service_date = Some(n)])
    /\ was = "ASK_SERVICE" /\ n \in {T_1, T_2, T_lunch, T_dinner} =>
         now = Some([old EXCEPT !.state = "CONFIRM_RESERVATION",
                                !.service = Some(GivenService(n))])
    /\ was = "CONFIRM_RESERVATION" /\ n \in {T_1, T_confirmar} =>
         \/ /\ req[1].newId # None
            /\ now = Some(FreshRow(req[1].wa))
            /\ \E row \in reservations :
                 /\ Some(row.id) = req[1].newId /\ row.status = "CONFIRMED"
                 /\ row.party_size = old.party_size /\ row.service_date = old.service_date
                 /\ row.service = old.service
         \/ /\ req[1].newId = None
            /\ ~HasCalled(1, {"insert:reservations"})
            /\ now = Some([old EXCEPT !.state = "ASK_ALT_PICK"])

\* a wa_id that had no session is not in CONFIRM_RESERVATION before its fifth
\* message, and is there with all four values set
C19_NotSooner ==
  StateOf(getSession(sessions, "wa1")) = "CONFIRM_RESERVATION" =>
    LET row == Val(getSession(sessions, "wa1")) IN
    /\ nreq >= 5
    /\ row.restaurant_code # None /\ row.party_size # None
    /\ row.service_date # None /\ row.service # None

\* C19: starting from a wa_id with no session (or in IDLE) and with no
\* database or remote error, the five valid answers reservar-option,
\* restaurant, party size in 1..50, ISO date and service lead in exactly five
\* messages to state CONFIRM_RESERVATION holding exactly the values given; a
\* sixth message 1 or confirmar then ends either with one new CONFIRMED
\* reservation and the session in IDLE, or with the session in ASK_ALT_PICK
\* and no reservation.
C19_HappyPath == C19_Steps /\ C19_NotSooner

\* the sixth message of a wa_id that had no session has made a reservation
\* for the values given
C19_Witness ==
  /\ nreq = 6 /\ IsMessage(1) /\ Done(1) /\ ~req[1].failed
  /\ req[1].wa = "wa1"
  /\ req[1].before =
       Some([wa_id |-> "wa1", state |-> "CONFIRM_RESERVATION",
             restaurant_code |-> Some("brodo-pasta"), party_size |-> Some(3),
             service_date |-> Some(DATE1), service |-> Some("DINNER")])
  /\ req[1].newId # None
  /\ getSession(sessions, "wa1") = Some(FreshRow("wa1"))

----------------------------------------------------------------------------
(* Properties of concurrent POST /webhook handlers, checked under SpecConc *)

\* chat_sessions holds at most one row per wa_id
C9_OneRow ==
  \A r1 \in sessions, r2 \in sessions : r1.wa_id = r2.wa_id => r1 = r2

\* every session call of a handler names the sender of its message, and the
\* row it has read is the sender's
C9_OwnRow ==
  \A k \in Slots :
    IsMessage(k) =>
      /\ req[k].wa = Val(req[k].q.from)
      /\ req[k].session # None => Val(req[k].session).wa_id = req[k].wa
      /\ \A i \in DOMAIN req[k].calls :
           /\ req[k].calls[i].name = "getSession" => req[k].calls[i].args = req[k].wa
           /\ req[k].calls[i].name = "upsertSession" => req[k].calls[i].args[1] = req[k].wa

C9_Rows == C9_OneRow /\ C9_OwnRow

\* a step changes the row of a wa_id only if it is a step of a handler of a
\* message from that wa_id
C9_Frame ==
  \A w \in WaIds :
    getSession(sessions', w) # getSession(sessions, w) =>
      \E k \in Slots : req'[k] # req[k] /\ IsMessage(k) /\ req[k].wa = w

\* C9: sessions are keyed by wa_id: a handler of a message from A reads and
\* writes only the row of A, the row of every other wa_id is unchanged by its
\* steps, and under any interleaving of the handlers there is at most one row
\* per wa_id.
C9_Keyed == [](C9_Rows) /\ [][C9_Frame]_vars

\* two overlapping handlers of the same new wa_id have both found no row and
\* both upserted one, and the table holds one row for it
C9_Witness ==
  /\ IsMessage(1) /\ IsMessage(2)
  /\ req[1].wa = req[2].wa
  /\ req[1].pc = "dispatch" /\ req[2].pc = "dispatch"
  /\ req[1].before = None /\ req[2].before = None
  /\ LastCall(1).name = "upsertSession" /\ LastCall(2).name = "upsertSession"
  /\ Cardinality({row \in sessions : row.wa_id = req[1].wa}) = 1
  /\ Cardinality(sessions) = 2

\* slot k handles 1 or confirmar for a sender found in CONFIRM_RESERVATION
\* and no call of the handler has thrown
Confirming(k) ==
  /\ IsMessage(k)
  /\ StateOf(req[k].before) = "CONFIRM_RESERVATION"
  /\ req[k].text \in {T_1, T_confirmar}
  /\ ~req[k].threw

\* C20, violated: when two requests carrying 1 or confirmar for the same
\* wa_id, both received while the session is in the same CONFIRM_RESERVATION
\* pass, are handled with interleaved steps, at most one of them inserts a
\* reservation for the session's restaurant, date, service and party.
C20_AtMostOne ==
  \A k \in Slots, j \in Slots :
    /\ k # j
    /\ Confirming(k) /\ Confirming(j)
    /\ req[k].wa = req[j].wa
    /\ req[k].before = req[j].before
    => ~(req[k].newId # None /\ req[j].newId # None)

\* a session in CONFIRM_RESERVATION or ASK_ALT_PICK names the restaurant, the
\* party size, the date and the service of the reservation it is about
C21_Complete ==
  \A row \in sessions :
    row.state \in {"CONFIRM_RESERVATION", "ASK_ALT_PICK"} =>
      /\ row.restaurant_code # None /\ row.party_size # None
      /\ row.service_date # None /\ row.service # None

\* a write that changes the stored state of a wa_id follows an edge of the
\* state machine from the state stored just before it, or resets to IDLE
C21_LegalWrite ==
  \A w \in WaIds :
    LET old == StateOf(getSession(sessions, w))
        new == StateOf(getSession(sessions', w))
    IN  new # old => <<old, new>> \in Edges \/ new = "IDLE"

\* C21, violated: under any interleaving of two handlers of messages from the
\* same wa_id, each reading the session and upserting some of its columns in
\* separate steps, the session is never in CONFIRM_RESERVATION or
\* ASK_ALT_PICK with restaurant_code, party_size, service_date or service
\* null, and no write stores a state that is not a legal successor of the
\* state stored immediately before the write.
C21_Interleaving == [](C21_Complete) /\ [][C21_LegalWrite]_vars

----------------------------------------------------------------------------
(* Properties of concurrent reservation requests, checked under SpecRace   *)

\* the rows a step inserts in reservations
Inserted == {row \in reservations' : \A old \in reservations : old.id # row.id}

\* check_availability, evaluated on the table as it is when the step
\* inserts, would grant every row the step inserts
C22_InsertFits ==
  \A row \in Inserted :
    \E rest \in RestaurantsTable :
      /\ rest.id = row.restaurant_id
      /\ Fits(reservations, Some(rest.code), row.service_date, row.service, row.party_size)

\* C22, violated: check-then-insert is safe under concurrency: when two
\* reservation requests (POST /reserve or WhatsApp confirmations) compete
\* for a slot that check_availability would grant to one of them only, no
\* reservation is inserted at a moment when check_availability evaluated at
\* that moment would not answer ok, so at most one row is inserted.
C22_CheckThenInsert == [][C22_InsertFits]_vars

====
